---- MODULE Spec2Model ----
(***************************************************************************)
(* Model of the vocabulary tools of haimingyue/20000words:                 *)
(*   - word_basic_to_csv.py          (TXT -> CSV converter, level tagging) *)
(*   - extract_words_kaoyan_5500.py  (tagged and generic word extractors)  *)
(*                                                                         *)
(* Python strings are modelled as sequences of one-character strings, so   *)
(* that strip/split/join/lower and the regular expressions are computed    *)
(* on characters.  The three keywords RECITE, DICTATION and SPELLING are   *)
(* written as one symbol each; a keyword symbol stands for its run of      *)
(* upper-case letters and is classified as letters everywhere.             *)
(***************************************************************************)
EXTENDS Naturals, Sequences, FiniteSets, TLC

VARIABLES
    \* ---- append_level exercised on its own (word_basic_to_csv.py)
    apInit,      \* the level string the appends started from
    apLevel,     \* the current level string
    apSep,       \* the separator in use
    apPrev,      \* the level string before the last append
    apTag,       \* the tag passed to the last append
    apCount,     \* number of appends done
    apRaised,    \* TRUE once str.split raised ValueError (empty separator)
    \* ---- the CSV converter (word_basic_to_csv.py)
    inLines,     \* the lines of the input file, each with its line terminator
    opt,         \* the options of the run (main's parsed arguments)
    outFile,     \* the output path: <<>> when absent, <<file>> when it exists
    prior,       \* outFile as it was before the last write
    pc,          \* "idle", "converting" or "failed"
    existing,    \* existing_levels_by_rank: <<>> for None, <<map>> otherwise
    idx,         \* number of input lines consumed by convert
    rank,        \* convert's running rank
    rows,        \* rows yielded by convert so far
    runs,        \* completed runs of the converter
    \* ---- the word extractors (extract_words_kaoyan_5500.py)
    exVariant,   \* "tagged" or "generic": which of the two scripts runs
    exDedupe,    \* write_words' dedupe (False under --keep-duplicates)
    exToLower,   \* write_words' to_lower (--lower)
    exRead,      \* number of input lines read so far
    exLine,      \* the line read last
    exYield,     \* what iter_words yielded for it: <<>> for nothing
    exYielded,   \* every word iter_words has yielded, in order
    exSeen,      \* write_words' seen set
    exOut,       \* the lines written to the output file, in order
    exCount,     \* write_words' count
    exResult,    \* write_words' return value: <<>> until it returns
    \* ---- main and build_label_sets (word_basic_to_csv.py)
    lbEntry,     \* "main" (command line) or "call" (build_label_sets called)
    lbArgs,      \* the arguments: auto_labels, auto_labels_dir, label
    lbFiles,     \* the paths that exist in the file system
    lbPc,        \* position in main / build_label_sets
    lbDir,       \* build_label_sets' auto_labels_dir: <<>> for None
    lbI,         \* entries of AUTO_LABEL_FILES visited so far
    lbJ,         \* label specs visited so far
    lbMerged,    \* merged: the labels that have a word set, with the set
    lbLast,      \* the path examined last: <<>> before the first
    lbErr,       \* the exception that ended the run: <<>> for none
    lbOut,       \* build_label_sets' result: <<>> until it returns
    \* ---- extract_first_three_meanings (word_basic_to_csv.py)
    mnFull,      \* full_meaning: the cleaned meaning
    mnShort      \* the short meaning: <<>> until computed, then <<meaning>>

apVars == <<apInit, apLevel, apSep, apPrev, apTag, apCount, apRaised>>
csvVars == <<inLines, opt, outFile, prior, pc, existing, idx, rank, rows, runs>>

exVars == <<exVariant, exDedupe, exToLower, exRead, exLine, exYield, exYielded,
            exSeen, exOut, exCount, exResult>>

lbVars == <<lbEntry, lbArgs, lbFiles, lbPc, lbDir, lbI, lbJ, lbMerged, lbLast,
            lbErr, lbOut>>

mnVars == <<mnFull, mnShort>>

vars == <<apVars, csvVars, exVars, lbVars, mnVars>>

(***************************************************************************)
(* Bounds of the model.                                                    *)
(***************************************************************************)
MaxAppends == 3
MaxCsvLines == 2
MaxRuns == 2
MaxWordLines == 2

(***************************************************************************)
(* String helpers: Python str methods on sequences of characters.          *)
(***************************************************************************)
Keywords == {"RECITE", "DICTATION", "SPELLING"}

UpperLetters == {"A", "B", "C", "D", "O", "P", "J"} \cup Keywords
LowerLetters == {"a", "b", "c", "d", "o", "p", "j", "t", "g", "r", "u", "n", "v"}

\* [A-Za-z]
IsLetter(c) == c \in UpperLetters \cup LowerLetters

\* [A-Za-z'\-]
IsWordChar(c) == IsLetter(c) \/ c \in {"'", "-"}

\* \w of the re module: letters, digits, underscore
IsReWord(c) == IsLetter(c) \/ c \in {"1", "_"}

\* str.lower on one character
LowerChar(c) ==
    CASE c = "A" -> "a"
      [] c = "B" -> "b"
      [] c = "C" -> "c"
      [] c = "D" -> "d"
      [] c = "O" -> "o"
      [] c = "P" -> "p"
      [] c = "J" -> "j"
      [] c = "RECITE" -> "recite"
      [] c = "DICTATION" -> "dictation"
      [] c = "SPELLING" -> "spelling"
      [] OTHER -> c

\* str.lower
Lower(s) == [i \in 1..Len(s) |-> LowerChar(s[i])]

\* s[from:] with a 1-based index
Drop(s, from) == SubSeq(s, from, Len(s))

\* number of leading characters of s that are in cs
RECURSIVE LeadCount(_, _)
LeadCount(s, cs) ==
    IF s # <<>> /\ Head(s) \in cs THEN 1 + LeadCount(Tail(s), cs) ELSE 0

\* number of trailing characters of s that are in cs
RECURSIVE TrailCount(_, _)
TrailCount(s, cs) ==
    IF s # <<>> /\ s[Len(s)] \in cs
        THEN 1 + TrailCount(SubSeq(s, 1, Len(s) - 1), cs)
        ELSE 0

\* str.lstrip(chars), str.rstrip(chars), str.strip(chars)
LStripChars(s, cs) == Drop(s, LeadCount(s, cs) + 1)
RStripChars(s, cs) == SubSeq(s, 1, Len(s) - TrailCount(s, cs))
StripChars(s, cs) == RStripChars(LStripChars(s, cs), cs)

Whitespace == {" ", "\t", "\n"}

\* str.strip(), str.lstrip()
Strip(s) == StripChars(s, Whitespace)
LStrip(s) == LStripChars(s, Whitespace)

\* str.startswith
StartsWith(s, p) == Len(p) <= Len(s) /\ SubSeq(s, 1, Len(p)) = p

\* str.find with a 1-based result, 0 when absent
Find(s, p) ==
    LET hits == {i \in 1..(Len(s) - Len(p) + 1) : SubSeq(s, i, i + Len(p) - 1) = p}
    IN  IF hits = {} THEN 0 ELSE CHOOSE i \in hits : \A j \in hits : i <= j

\* str.split(sep) for a non-empty sep
RECURSIVE Split(_, _)
Split(s, sep) ==
    LET i == Find(s, sep)
    IN  IF i = 0
            THEN <<s>>
            ELSE <<SubSeq(s, 1, i - 1)>> \o Split(Drop(s, i + Len(sep)), sep)

\* the elements of a sequence
Range(f) == {f[i] : i \in DOMAIN f}

(***************************************************************************)
(* word_basic_to_csv.py: append_level                                      *)
(***************************************************************************)

\* level.split(sep) raises ValueError("empty separator") when both strings
\* are non-empty after stripping and the separator is empty
AppendRaises(level, add, sep) ==
    Strip(add) # <<>> /\ Strip(level) # <<>> /\ sep = <<>>

append_level(level, add, sep) ==
    LET a == Strip(add)
        l == Strip(level)
    IN  IF a = <<>> THEN level
        ELSE IF l = <<>> THEN a
        ELSE IF sep = <<>> THEN l
        ELSE LET parts == Split(l, sep)
                 tokens == {Strip(parts[i]) : i \in DOMAIN parts}
             IN  IF a \in tokens THEN l ELSE l \o sep \o a

(***************************************************************************)
(* word_basic_to_csv.py: the CSV file, extract_fields (the word), convert  *)
(***************************************************************************)

\* Optional values: None is <<>>, a present value x is <<x>>
None == <<>>
Some(x) == <<x>>

Digits == <<"0", "1", "2", "3", "4", "5", "6", "7", "8", "9">>

\* str(rank), as csv.writer writes the rank column
RECURSIVE IntToStr(_)
IntToStr(n) ==
    IF n < 10 THEN <<Digits[n + 1]>>
    ELSE IntToStr(n \div 10) \o <<Digits[(n % 10) + 1]>>

DigitValue(c) == (CHOOSE i \in 1..10 : Digits[i] = c) - 1

\* int(s) succeeds: a non-empty run of decimal digits (after stripping)
IsInt(s) == Strip(s) # <<>> /\ \A i \in DOMAIN Strip(s) : Strip(s)[i] \in Range(Digits)

RECURSIVE DigitsToInt(_)
DigitsToInt(s) ==
    IF s = <<>> THEN 0
    ELSE 10 * DigitsToInt(SubSeq(s, 1, Len(s) - 1)) + DigitValue(s[Len(s)])

\* int((row.get("rank") or "").strip())
ParseInt(s) == DigitsToInt(Strip(s))

\* A CSV file as csv.writer leaves it and csv.DictReader reads it: the
\* header's column names and one record per row, each field a string.
\* Quoting is undone by the reader, so a field comes back as written.
CsvFile(cols, recs) == [cols |-> cols, recs |-> recs]

OutputHeader ==
    {"rank", "level", "word", "phonetic", "meaning", "full_meaning", "example", "source"}

load_existing_levels_by_rank(file) ==
    IF file.cols = {} \/ "rank" \notin file.cols \/ "level" \notin file.cols
        THEN [r \in {} |-> <<>>]
        ELSE LET good == {i \in DOMAIN file.recs : IsInt(file.recs[i].rank)}
                 last(r) == CHOOSE i \in good :
                                /\ ParseInt(file.recs[i].rank) = r
                                /\ \A j \in good :
                                       ParseInt(file.recs[j].rank) = r => j <= i
             IN  [r \in {ParseInt(file.recs[i].rank) : i \in good} |->
                      Strip(file.recs[last(r)].level)]

\* WORD_RE.match(s): the matched text, <<>> when there is no match
MatchWord(s) ==
    IF s # <<>> /\ IsLetter(s[1])
        THEN SubSeq(s, 1, 1 + LeadCount(Tail(s), {c \in Range(s) : IsWordChar(c)}))
        ELSE <<>>

QuoteChars == {" ", "\"", "'"}

\* extract_fields(line)[0]: the word of a line
ExtractWord(line) ==
    LET t == Find(line, <<"\t">>)
        left == StripChars(IF t = 0 THEN line ELSE SubSeq(line, 1, t - 1), QuoteChars)
        right == IF t = 0 THEN <<>> ELSE StripChars(Drop(line, t + 1), QuoteChars)
        combined == Strip(left \o <<" ">> \o right)
    IN  IF MatchWord(left) # <<>> THEN MatchWord(left) ELSE MatchWord(combined)

\* convert's test for a line it skips
SkipsNothing(raw) == FALSE

SkippedLine(raw) == Strip(raw) = <<>> \/ StartsWith(LStrip(raw), <<"#">>)

\* existing_levels_by_rank.get(rank, level) if it is not None else level
SeedFromBase(ex, rk, level) == level

SeedLevel(ex, rk, level) ==
    IF ex # None
        THEN (IF rk \in DOMAIN ex[1] THEN ex[1][rk] ELSE level)
        ELSE level

\* the tags convert appends for a word, in the order it appends them
LabelTagsReversed(w_lower, o) ==
    LET n == Len(o.label_sets)
        hit == {i \in 1..n : w_lower \in o.label_sets[i].words}
        RECURSIVE pick(_)
        pick(i) == IF i = 0 THEN <<>>
                   ELSE (IF i \in hit THEN <<o.label_sets[i].lbl>> ELSE <<>>) \o pick(i - 1)
    IN  IF w_lower = <<>> THEN <<>> ELSE pick(n)

LabelTags(w_lower, o) ==
    LET n == Len(o.label_sets)
        hit == {i \in 1..n : w_lower \in o.label_sets[i].words}
        RECURSIVE pick(_)
        pick(i) == IF i > n THEN <<>>
                   ELSE (IF i \in hit THEN <<o.label_sets[i].lbl>> ELSE <<>>) \o pick(i + 1)
    IN  IF w_lower = <<>> THEN <<>> ELSE pick(1)

LevelWordsTag(w_lower, o) ==
    IF o.level_words # None /\ w_lower # <<>> /\ w_lower \in o.level_words[1]
        THEN <<o.level_value>>
        ELSE <<>>

\* the appends of one row, in order; raised is TRUE when one of them raised
RECURSIVE AppendTags(_, _, _)
AppendTags(level, tags, sep) ==
    IF tags = <<>> THEN [level |-> level, raised |-> FALSE]
    ELSE IF AppendRaises(level, Head(tags), sep) THEN [level |-> level, raised |-> TRUE]
    ELSE AppendTags(append_level(level, Head(tags), sep), Tail(tags), sep)

\* the body of convert's loop for a line that is not skipped
ConvertRow(raw, rk, ex, o) ==
    LET word == ExtractWord(RStripChars(raw, {"\n"}))
        w_lower == Lower(word)
        tags == LevelWordsTag(w_lower, o) \o LabelTags(w_lower, o)
        res == AppendTags(SeedLevel(ex, rk, o.level), tags, o.level_sep)
    IN  [row |-> [rank |-> rk, level |-> res.level, word |-> word],
         raised |-> res.raised]

(***************************************************************************)
(* Specification SpecCsv: runs of the converter on one input file with one *)
(* set of options, each run writing the output file the next one may read. *)
(***************************************************************************)
Cat == <<"c", "a", "t">>
Dog == <<"d", "o", "g">>
Run == <<"r", "u", "n">>
COCA == <<"C", "O", "C", "A">>

CsvLineSet ==
    { Cat \o <<"\n">>,
      <<"C", "a", "t", "\t", "n", "\n">>,
      Dog \o <<"\n">>,
      <<" ", "\n">>,
      <<"#">> \o Cat \o <<"\n">>,
      <<" ", "#", "\n">>,
      <<"1", "\t">> \o Cat \o <<"\n">> }

RECURSIVE SeqsUpTo(_, _)
SeqsUpTo(S, n) ==
    IF n = 0 THEN {<<>>}
    ELSE LET shorter == SeqsUpTo(S, n - 1)
         IN  shorter \cup {Append(q, x) : q \in {p \in shorter : Len(p) = n - 1}, x \in S}

\* the label sets of the two-file scenario: P = {cat, dog}, J = {cat, run}
LabelsPJ == << [lbl |-> <<"P">>, words |-> {Cat, Dog}],
               [lbl |-> <<"J">>, words |-> {Cat, Run}] >>

Options(level, lw, lv, sep, ls, merge) ==
    [level |-> level, level_words |-> lw, level_value |-> lv, level_sep |-> sep,
     label_sets |-> ls, merge |-> merge]

CsvOptions ==
    { Options(level, lw, <<"J">>, <<",">>, ls, TRUE) :
          level \in {<<>>, <<"B">>, <<" ", "B">>},
          lw \in {None, Some({Cat})},
          ls \in {<<>>, LabelsPJ} }
    \cup
    { Options(<<>>, None, <<"J">>, <<",">>, LabelsPJ, FALSE),
      Options(<<"J">>, Some({Cat}), <<"J">>, <<" ">>, LabelsPJ, TRUE),
      Options(<<"B">>, Some({Cat}), <<"a", ",", "b">>, <<",">>, <<>>, TRUE),
      Options(<<>>, None, <<"J">>, <<",">>,
              <<[lbl |-> <<"a", ",", "b">>, words |-> {Dog}]>>, TRUE),
      Options(<<"B">>, None, <<"J">>, <<>>, LabelsPJ, TRUE) }

\* what the output path may hold before the first run
InitialFiles ==
    { None,
      Some(CsvFile({"word", "level"}, <<[rank |-> <<"1">>, level |-> COCA]>>)),
      Some(CsvFile(OutputHeader,
                   << [rank |-> <<"2">>, level |-> COCA],
                      [rank |-> <<"x">>, level |-> <<"B">>],
                      [rank |-> <<" ", "1">>, level |-> <<"J", " ">>] >>)) }

\* the parts of the state a specification does not use stay as set here
IdleAppend ==
    /\ apInit = <<>>
    /\ apLevel = <<>>
    /\ apSep = <<>>
    /\ apPrev = <<>>
    /\ apTag = <<>>
    /\ apCount = 0
    /\ apRaised = FALSE

IdleEx ==
    /\ exVariant = "off"
    /\ exDedupe = FALSE
    /\ exToLower = FALSE
    /\ exRead = 0
    /\ exLine = <<>>
    /\ exYield = <<>>
    /\ exYielded = <<>>
    /\ exSeen = {}
    /\ exOut = <<>>
    /\ exCount = 0
    /\ exResult = <<>>

IdleLabels ==
    /\ lbEntry = "off"
    /\ lbArgs = <<>>
    /\ lbFiles = {}
    /\ lbPc = "off"
    /\ lbDir = <<>>
    /\ lbI = 0
    /\ lbJ = 0
    /\ lbMerged = <<>>
    /\ lbLast = <<>>
    /\ lbErr = <<>>
    /\ lbOut = <<>>

IdleMeaning ==
    /\ mnFull = <<>>
    /\ mnShort = <<>>

IdleCsv ==
    /\ inLines = <<>>
    /\ opt = Options(<<>>, None, <<>>, <<>>, <<>>, FALSE)
    /\ outFile = None
    /\ prior = None
    /\ pc = "off"
    /\ existing = None
    /\ idx = 0
    /\ rank = 0
    /\ rows = <<>>
    /\ runs = 0

InitCsv ==
    /\ IdleAppend
    /\ IdleEx
    /\ IdleLabels
    /\ IdleMeaning
    /\ inLines \in SeqsUpTo(CsvLineSet, MaxCsvLines)
    /\ opt \in CsvOptions
    /\ outFile \in InitialFiles
    /\ prior = None
    /\ pc = "idle"
    /\ existing = None
    /\ idx = 0
    /\ rank = 0
    /\ rows = <<>>
    /\ runs = 0

\* convert_file_with_output_encoding, up to the call of convert
StartRun ==
    /\ pc = "idle"
    /\ runs < MaxRuns
    /\ existing' = IF opt.merge /\ outFile # None
                       THEN Some(load_existing_levels_by_rank(outFile[1]))
                       ELSE None
    /\ pc' = "converting"
    /\ idx' = 0
    /\ rank' = 0
    /\ rows' = <<>>
    /\ UNCHANGED <<inLines, opt, outFile, prior, runs, apVars, exVars, lbVars, mnVars>>

\* one iteration of convert's loop
ConvertLine ==
    /\ pc = "converting"
    /\ idx < Len(inLines)
    /\ idx' = idx + 1
    /\ LET raw == inLines[idx + 1]
           r == ConvertRow(raw, rank + 1, existing, opt)
       IN  IF SkippedLine(raw)
               THEN UNCHANGED <<rank, rows, pc>>
               ELSE IF r.raised
                   THEN /\ pc' = "failed"
                        /\ rank' = rank + 1
                        /\ UNCHANGED rows
                   ELSE /\ rank' = rank + 1
                        /\ rows' = Append(rows, r.row)
                        /\ UNCHANGED pc
    /\ UNCHANGED <<inLines, opt, outFile, prior, existing, runs, apVars, exVars, lbVars, mnVars>>

\* convert is exhausted: the header and the rows are written
WriteOutput ==
    /\ pc = "converting"
    /\ idx = Len(inLines)
    /\ prior' = outFile
    /\ outFile' = Some(CsvFile(OutputHeader,
                       [i \in DOMAIN rows |->
                           [rank |-> IntToStr(rows[i].rank), level |-> rows[i].level]]))
    /\ runs' = runs + 1
    /\ pc' = "idle"
    /\ UNCHANGED <<inLines, opt, existing, idx, rank, rows, apVars, exVars, lbVars, mnVars>>

NextCsv == StartRun \/ ConvertLine \/ WriteOutput

SpecCsv == InitCsv /\ [][NextCsv]_vars

(***************************************************************************)
(* Properties of the converter, stated on the input and the files.         *)
(***************************************************************************)

\* the characters of a line that are not whitespace
Ink(raw) == SelectSeq(raw, LAMBDA c : c \notin {" ", "\t", "\n"})

\* a line that is neither blank nor a '#' line (leading whitespace aside)
CountedLine(raw) == Ink(raw) # <<>> /\ Ink(raw)[1] # "#"

\* the indices of the counted lines among the first n input lines, in order
RECURSIVE CountedUpTo(_)
CountedUpTo(n) ==
    IF n = 0 THEN <<>>
    ELSE CountedUpTo(n - 1) \o (IF CountedLine(inLines[n]) THEN <<n>> ELSE <<>>)

\* C1: the rows convert has yielded after consuming idx input lines carry
\* the ranks 1, 2, ..., k in input order, k being the number of consumed
\* lines that are neither blank nor '#' lines; each such line gave exactly
\* one row, with or without a word; and a finished run leaves exactly these
\* ranks, written in decimal, in the output file.
C1_RanksSequential ==
    pc \in {"idle", "converting"} =>
        LET counted == CountedUpTo(idx)
        IN  /\ Len(rows) = Len(counted)
            /\ rank = Len(counted)
            /\ \A i \in DOMAIN rows :
                   /\ rows[i].rank = i
                   /\ rows[i].word =
                          ExtractWord(RStripChars(inLines[counted[i]], {"\n"}))
            /\ (pc = "idle" /\ runs > 0) =>
                   /\ idx = Len(inLines)
                   /\ Len(outFile[1].recs) = Len(counted)
                   /\ \A i \in DOMAIN counted :
                          outFile[1].recs[i].rank = IntToStr(i)

\* a finished run over a skipped line followed by a line without a word
C1_Witness ==
    /\ pc = "idle" /\ runs > 0
    /\ Len(inLines) = 2
    /\ ~CountedLine(inLines[1])
    /\ Len(rows) = 1 /\ rows[1].rank = 1 /\ rows[1].word = <<>>
    /\ outFile[1].recs[1].rank = <<"1">>

\* the levels of a file's rows, in row order
LevelsOf(file) == [i \in DOMAIN file.recs |-> file.recs[i].level]

\* C4: after a run with --merge-existing-output that read the converter's
\* own prior output (same input, same options), every rank has the level it
\* had after the run before.
C4_MergeIdempotent ==
    (pc = "idle" /\ opt.merge /\ runs >= 2) =>
        LevelsOf(outFile[1]) = LevelsOf(prior[1])

\* the file the current run was started on has both columns
FileHasColumns == outFile # None /\ {"rank", "level"} \subseteq outFile[1].cols

\* the rows of that file whose rank column reads as the integer r
FileRowsAt(r) ==
    {i \in DOMAIN outFile[1].recs :
        IsInt(outFile[1].recs[i].rank) /\ ParseInt(outFile[1].recs[i].rank) = r}

\* the level that file holds at rank r (the last such row is the one kept)
FileLevelAt(r) ==
    LET i == CHOOSE k \in FileRowsAt(r) : \A j \in FileRowsAt(r) : j <= k
    IN  Strip(outFile[1].recs[i].level)

\* the level row r starts from in the current run
StartLevel(r) ==
    IF opt.merge /\ FileHasColumns /\ FileRowsAt(r) # {}
        THEN FileLevelAt(r)
        ELSE opt.level

\* level, then each tag appended in turn
RECURSIVE FoldAppend(_, _, _)
FoldAppend(level, tags, sep) ==
    IF tags = <<>> THEN level
    ELSE FoldAppend(append_level(level, Head(tags), sep), Tail(tags), sep)

IsPrefix(p, s) == Len(p) <= Len(s) /\ SubSeq(s, 1, Len(p)) = p

\* the tags a row's word earns
RowTags(row) ==
    LevelWordsTag(Lower(row.word), opt) \o LabelTags(Lower(row.word), opt)

\* C5: in a merge run on an existing file with rank and level columns, each
\* row starts from the file's level at its rank, not from the base level,
\* and the tags are appended to it, so that level stays the leading part of
\* the row's level; level COCA with the one new tag J gives COCA,J; without
\* the columns (or the rank) the row starts from the base level.
C5_MergeSeeding ==
    pc = "converting" =>
        \A i \in DOMAIN rows :
            /\ rows[i].level = FoldAppend(StartLevel(i), RowTags(rows[i]), opt.level_sep)
            /\ (opt.merge /\ FileHasColumns /\ FileRowsAt(i) # {}) =>
                   /\ IsPrefix(FileLevelAt(i), rows[i].level)
                   /\ (FileLevelAt(i) = COCA /\ RowTags(rows[i]) = << <<"J">> >>
                           /\ opt.level_sep = <<",">>) =>
                          rows[i].level = COCA \o <<",", "J">>
            /\ (opt.merge /\ outFile # None /\ ~FileHasColumns) =>
                   IsPrefix(Strip(opt.level), Strip(rows[i].level))

\* a merge run seeded a row with COCA, where the base level is another one,
\* and appended the new tag J
C5_Witness ==
    /\ pc = "converting" /\ opt.merge /\ FileHasColumns
    /\ \E i \in DOMAIN rows :
          /\ FileRowsAt(i) # {}
          /\ FileLevelAt(i) = COCA
          /\ opt.level = <<"B">>
          /\ RowTags(rows[i]) = << <<"J">> >>
          /\ rows[i].level = COCA \o <<",", "J">>

\* the names of the label sets holding w, in label-set order
MatchedLabels(w) ==
    LET holds(ls) == w \in ls.words
        sel == SelectSeq(opt.label_sets, holds)
    IN  [i \in DOMAIN sel |-> sel[i].lbl]

\* the optional --level-words tag of w
MatchedLevelWords(w) ==
    IF opt.level_words # None /\ w \in opt.level_words[1]
        THEN <<opt.level_value>> ELSE <<>>

\* a tag that is one token: stripped, non-empty, without the separator
PlainTag(t, sep) == t # <<>> /\ Strip(t) = t /\ sep # <<>> /\ Find(t, sep) = 0

\* a sequence without its repeats, first occurrences kept
RECURSIVE Dedup(_)
Dedup(q) ==
    IF q = <<>> THEN <<>>
    ELSE LET front == Dedup(SubSeq(q, 1, Len(q) - 1))
         IN  IF q[Len(q)] \in Range(front) THEN front ELSE Append(front, q[Len(q)])

\* C6: a row with a word has, appended to the level it starts from, the
\* --level-words tag (if the word is listed) and then the name of every
\* label set holding the lower-cased word, in label-set order, and nothing
\* for the other label sets; starting from an empty level its tokens are
\* these tags, each once; with P = {cat, dog}, J = {cat, run} and ',' the
\* word cat, in any letter case, gets P,J.
C6_MultiLabel ==
    pc \in {"idle", "converting"} =>
        \A i \in DOMAIN rows :
            LET w == Lower(rows[i].word)
                tags == MatchedLevelWords(w) \o MatchedLabels(w)
                seed == SeedLevel(existing, i, opt.level)
            IN  rows[i].word # <<>> =>
                    /\ rows[i].level = FoldAppend(seed, tags, opt.level_sep)
                    /\ (seed = <<>> /\ tags # <<>>
                            /\ \A k \in DOMAIN tags : PlainTag(tags[k], opt.level_sep)) =>
                           Split(rows[i].level, opt.level_sep) = Dedup(tags)
                    /\ (seed = <<>> /\ w = Cat /\ opt.label_sets = LabelsPJ
                            /\ opt.level_words = None /\ opt.level_sep = <<",">>) =>
                           rows[i].level = <<"P", ",", "J">>

\* the row of Cat (capitalised) got P,J from the two label sets
C6_Witness ==
    /\ opt.label_sets = LabelsPJ /\ opt.level_words = None /\ opt.level = <<>>
    /\ \E i \in DOMAIN rows :
          /\ rows[i].word = <<"C", "a", "t">>
          /\ SeedLevel(existing, i, opt.level) = <<>>
          /\ rows[i].level = <<"P", ",", "J">>

(***************************************************************************)
(* extract_words_kaoyan_5500.py: the tagged extractor                      *)
(***************************************************************************)

\* _strip_quotes: s.strip().strip('"').strip("'")
strip_quotes(s) == StripChars(StripChars(Strip(s), {"\""}), {"'"})

\* the text before the first tab, and the text after it ("" without a tab)
BeforeTab(line) ==
    IF Find(line, <<"\t">>) = 0 THEN line ELSE SubSeq(line, 1, Find(line, <<"\t">>) - 1)
AfterTab(line) ==
    IF Find(line, <<"\t">>) = 0 THEN <<>> ELSE Drop(line, Find(line, <<"\t">>) + 1)

\* WORD_RE of the tagged script, ^[A-Za-z][A-Za-z'\-]*$, matches all of w
FullWord(w) ==
    w # <<>> /\ IsLetter(w[1]) /\ \A i \in DOMAIN w : IsWordChar(w[i])

\* \b after the first k characters of s
BoundaryAfter(s, k) ==
    LET before == k >= 1 /\ IsReWord(s[k])
        after == k < Len(s) /\ IsReWord(s[k + 1])
    IN  before # after

\* RECITE_RE.match: ^RECITE\s+([A-Za-z][A-Za-z'\-]*)\b, group 1 or <<>>
extract_from_recite(first) ==
    LET s == Strip(first)
        ws == IF s # <<>> /\ s[1] = "RECITE" THEN LeadCount(Tail(s), Whitespace) ELSE 0
        body == Drop(s, ws + 2)
        run == Len(MatchWord(body))
        ends == {k \in 1..run : BoundaryAfter(body, k)}
    IN  IF ws = 0 \/ ends = {} THEN <<>>
        ELSE SubSeq(body, 1, CHOOSE k \in ends : \A j \in ends : j <= k)

\* re.split(r"[\t ]+", s)
RECURSIVE SplitTabsSpaces(_)
SplitTabsSpaces(s) ==
    LET seps == {i \in DOMAIN s : s[i] \in {"\t", " "}}
        i == CHOOSE k \in seps : \A j \in seps : k <= j
    IN  IF seps = {} THEN <<s>>
        ELSE <<SubSeq(s, 1, i - 1)>>
                 \o SplitTabsSpaces(Drop(s, i + LeadCount(Drop(s, i), {"\t", " "})))

\* the token after the first DICTATION token that has one, <<>> when it is
\* no word or there is none
AfterDictation(parts) ==
    LET hits == {i \in DOMAIN parts : parts[i] = <<"DICTATION">> /\ i + 1 <= Len(parts)}
        i == CHOOSE k \in hits : \A j \in hits : k <= j
    IN  IF hits = {} THEN <<>>
        ELSE IF FullWord(Strip(parts[i + 1])) THEN Strip(parts[i + 1]) ELSE <<>>

extract_from_dictation_anywhere(second) ==
    AfterDictation(SplitTabsSpaces(strip_quotes(second)))

extract_from_dictation(second) ==
    LET s == strip_quotes(second)
    IN  IF ~StartsWith(s, <<"DICTATION">>) THEN <<>>
        ELSE AfterDictation(SplitTabsSpaces(s))

\* nxt.startswith("[") or nxt.startswith("/") or ...: the two longer
\* prefixes of the test begin with "["
LooksPhonetic(nxt) == nxt # <<>> /\ nxt[1] \in {"[", "/"}

\* the field after parts[i], stripped, "" after the last one
NextField(parts, i) == IF i + 1 <= Len(parts) THEN Strip(parts[i + 1]) ELSE <<>>

extract_from_spelling_first_word(second) ==
    LET s == strip_quotes(second)
        parts == Split(s, <<"\t">>)
        words == {i \in DOMAIN parts : FullWord(Strip(parts[i]))}
        i == CHOOSE k \in words : \A j \in words : k <= j
    IN  IF Find(s, <<"SPELLING">>) = 0 \/ words = {} THEN <<>>
        ELSE IF LooksPhonetic(NextField(parts, i)) THEN Strip(parts[i]) ELSE <<>>

extract_from_spelling(second) ==
    LET s == strip_quotes(second)
        parts == Split(s, <<"\t">>)
        hits == {i \in DOMAIN parts :
                    FullWord(Strip(parts[i])) /\ LooksPhonetic(NextField(parts, i))}
    IN  IF Find(s, <<"SPELLING">>) = 0 \/ hits = {} THEN <<>>
        ELSE Strip(parts[CHOOSE k \in hits : \A j \in hits : k <= j])

\* the body of iter_words' loop (tagged script): the word yielded for raw,
\* <<>> when the line yields nothing
TaggedLineWord(raw) ==
    LET line == Strip(raw)
        first == strip_quotes(BeforeTab(line))
        second == AfterTab(line)
    IN  IF line = <<>> \/ StartsWith(line, <<"#">>) THEN <<>>
        ELSE IF extract_from_recite(first) # <<>> THEN extract_from_recite(first)
        ELSE IF first = <<"DICTATION">> THEN extract_from_dictation(second)
        ELSE IF Find(first, <<"SPELLING">>) > 0 THEN extract_from_spelling(second)
        ELSE <<>>

\* write_words (tagged script): key = w.lower()
TaggedKeyExact(w) == w

TaggedKey(w) == Lower(w)

(***************************************************************************)
(* extract_words_kaoyan_5500.py: the generic extractor (second script of   *)
(* the file)                                                               *)
(***************************************************************************)

\* WORD_RE.match(left) or WORD_RE.search(left) with the unanchored
\* [A-Za-z][A-Za-z'\-]*: the first letter and the run that follows it
SearchWord(s) ==
    LET letters == {i \in DOMAIN s : IsLetter(s[i])}
        i == CHOOSE k \in letters : \A j \in letters : k <= j
    IN  IF letters = {} THEN <<>> ELSE MatchWord(Drop(s, i))

\* the body of iter_words' loop (generic script)
GenericLineWord(raw) ==
    LET line == Strip(raw)
        left == StripChars(Strip(BeforeTab(line)), QuoteChars)
    IN  IF line = <<>> \/ StartsWith(line, <<"#">>) THEN <<>>
        ELSE IF MatchWord(left) # <<>> THEN MatchWord(left)
        ELSE SearchWord(left)

\* write_words (generic script): the word itself is what seen holds
GenericKey(w) == w

(***************************************************************************)
(* Specifications SpecTagged and SpecGeneric: write_words reading the      *)
(* input file line by line.                                                *)
(***************************************************************************)
Ab == <<"a", "b">>

\* first tab-fields
TaggedFirsts ==
    { <<"RECITE", " ">> \o Ab,
      <<"RECITE", " ">> \o Ab \o <<"-">>,
      <<"RECITE", " ", "A", "b", " ", "[">>,
      <<"RECITE", " ">> \o Ab \o <<"1">>,
      <<"\"", "RECITE", " ", " ">> \o Ab \o <<"'", "b", "\"">>,
      <<"RECITE">>,
      <<"RECITE", " ", "SPELLING">>,
      <<"DICTATION">>,
      <<"SPELLING">>,
      <<"\"", "SPELLING", " ", "a", "\"">>,
      Ab,
      <<"#", "a">>,
      <<>> }

\* what follows the first tab-field
TaggedRests ==
    { <<>>,
      <<"\t", "DICTATION", " ", "\t">> \o Ab \o <<" ", "\t", "[">>,
      <<"\t", "DICTATION", " ", "1", "a", "\t", "SPELLING", "\t">> \o Ab \o <<"\t", "[">>,
      <<"\t", "a", " ", "DICTATION", " ">> \o Ab,
      <<"\t", "DICTATION", "\t", "A", "b">>,
      <<"\t", "DICTATION">>,
      <<"\t", "SPELLING", "\t">> \o Ab \o <<"\t", "[">>,
      <<"\t">> \o Ab \o <<"\t", "[">>,
      <<"\t", "SPELLING", "\t">> \o Ab \o <<"\t", "b", "\t", "/", "a">>,
      <<"\t", "\"", "SPELLING", " ", "a", "\t", " ", "A", "b", "-", "\t", " ", "[", "\"">> }

TaggedLines == {f \o r \o <<"\n">> : f \in TaggedFirsts, r \in TaggedRests}

GenericLines ==
    { l \o <<"\n">> : l \in
        { Ab, <<"A", "b">>, <<"A", "B">>, <<"b">>, <<"b", "-", "a", "\t", "a">>,
          <<"1", " ">> \o Ab, <<"\"", "A", "b", "\"">>, <<"1">>, <<"#">> \o Ab,
          <<" ">>, <<"\t", "b">>, <<"a", "'", "b", " ", "[">> } }

\* the values of both flags at the start of write_words
InitEx(variant) ==
    /\ IdleAppend
    /\ IdleCsv
    /\ IdleLabels
    /\ IdleMeaning
    /\ exVariant = variant
    /\ exDedupe \in BOOLEAN
    /\ exToLower \in BOOLEAN
    /\ exRead = 0
    /\ exLine = <<>>
    /\ exYield = <<>>
    /\ exYielded = <<>>
    /\ exSeen = {}
    /\ exOut = <<>>
    /\ exCount = 0
    /\ exResult = None

\* one iteration of write_words' loop over iter_words: the next input line
\* is read, and the word it yields, if any, is lowered, deduplicated by
\* key and written
ReadLine(raw, word, key) ==
    /\ exResult = None
    /\ exRead < MaxWordLines
    /\ exRead' = exRead + 1
    /\ exLine' = raw
    /\ exYield' = word
    /\ LET w == IF exToLower THEN Lower(word) ELSE word
       IN  IF word = <<>>
               THEN UNCHANGED <<exYielded, exSeen, exOut, exCount>>
               ELSE /\ exYielded' = Append(exYielded, word)
                    /\ IF exDedupe /\ key \in exSeen
                           THEN UNCHANGED <<exSeen, exOut, exCount>>
                           ELSE /\ exSeen' = IF exDedupe THEN exSeen \cup {key} ELSE exSeen
                                /\ exOut' = Append(exOut, w)
                                /\ exCount' = exCount + 1
    /\ UNCHANGED <<exVariant, exDedupe, exToLower, exResult, apVars, csvVars, lbVars, mnVars>>

\* iter_words of each script on every line of the model's input alphabet
TaggedWords == [raw \in TaggedLines |-> TaggedLineWord(raw)]
GenericWords == [raw \in GenericLines |-> GenericLineWord(raw)]

TaggedRead(raw) ==
    LET word == TaggedWords[raw]
    IN  ReadLine(raw, word, TaggedKey(IF exToLower THEN Lower(word) ELSE word))

GenericRead(raw) ==
    LET word == GenericWords[raw]
    IN  ReadLine(raw, word, GenericKey(IF exToLower THEN Lower(word) ELSE word))

\* the input is exhausted: write_words returns count
ReturnCount ==
    /\ exResult = None
    /\ exResult' = Some(exCount)
    /\ UNCHANGED <<exVariant, exDedupe, exToLower, exRead, exLine, exYield,
                   exYielded, exSeen, exOut, exCount, apVars, csvVars, lbVars,
                   mnVars>>

NextTagged == (\E raw \in TaggedLines : TaggedRead(raw)) \/ ReturnCount

NextGeneric == (\E raw \in GenericLines : GenericRead(raw)) \/ ReturnCount

SpecTagged == InitEx("tagged") /\ [][NextTagged]_vars

SpecGeneric == InitEx("generic") /\ [][NextGeneric]_vars

(***************************************************************************)
(* Properties of the extractors, stated on the line read last and on the   *)
(* words yielded so far.                                                   *)
(***************************************************************************)

\* the word as write_words writes it
Written(w) == IF exToLower THEN Lower(w) ELSE w

\* the words of q whose lower-cased form has not occurred earlier in q
RECURSIVE FirstSpellings(_)
FirstSpellings(q) ==
    IF q = <<>> THEN <<>>
    ELSE LET n == Len(q)
             front == FirstSpellings(SubSeq(q, 1, n - 1))
         IN  IF \E i \in 1..(n - 1) : Lower(q[i]) = Lower(q[n])
                 THEN front ELSE Append(front, q[n])

\* the dedup contract for the words yielded so far
DedupContract ==
    /\ exOut = [i \in DOMAIN FirstSpellings(exYielded) |->
                   Written(FirstSpellings(exYielded)[i])]
    /\ \A i, j \in DOMAIN exOut : Lower(exOut[i]) = Lower(exOut[j]) => i = j
    /\ {Lower(exOut[i]) : i \in DOMAIN exOut}
           = {Lower(exYielded[i]) : i \in DOMAIN exYielded}

\* C2: the tagged write_words, with dedupe, writes each lower-case-normalised
\* word exactly once, in order of first appearance and in its first-seen
\* spelling; with --keep-duplicates it writes every occurrence; the count
\* (and the value returned) is the number of lines written.
C2_TaggedDedup ==
    exVariant = "tagged" =>
        /\ exCount = Len(exOut)
        /\ exResult # None => exResult[1] = Len(exOut)
        /\ exDedupe => DedupContract
        /\ ~exDedupe => exOut = [i \in DOMAIN exYielded |-> Written(exYielded[i])]

\* ab and Ab were yielded, in two spellings of one word, and one was written
C2_Witness ==
    /\ exVariant = "tagged" /\ exDedupe /\ ~exToLower
    /\ Len(exYielded) = 2
    /\ exYielded[1] # exYielded[2]
    /\ Lower(exYielded[1]) = Lower(exYielded[2])
    /\ exOut = <<exYielded[1]>>
    /\ exResult = Some(1)

\* C3: the generic write_words keeps the same dedup contract in default
\* mode without --lower: words that differ only in letter case are written
\* once, in order of first appearance.
C3_GenericDedup ==
    (exVariant = "generic" /\ exDedupe /\ ~exToLower) => DedupContract

\* the first tab-field of the line, as iter_words takes it
FirstField(raw) == strip_quotes(BeforeTab(Strip(raw)))

\* the remainder of the line after the first tab, without surrounding quotes
Remainder(raw) == strip_quotes(AfterTab(Strip(raw)))

\* the text up to the first whitespace
UpToSpace(s) == SubSeq(s, 1, Len(s) - Len(LStripChars(s, {c \in Range(s) : c \notin Whitespace})))

\* for a field of the shape RECITE, whitespace, word token: the word token
ReciteToken(f) ==
    LET rest == IF f # <<>> /\ f[1] = "RECITE" THEN Tail(f) ELSE <<>>
        token == UpToSpace(LStrip(rest))
    IN  IF rest # <<>> /\ rest[1] \in Whitespace /\ FullWord(token) THEN token ELSE <<>>

\* C8: a line whose first tab-field is RECITE, whitespace and a word token
\* (a letter, then letters, apostrophes or hyphens) yields exactly that whole
\* word token.
C8_ReciteWholeToken ==
    (exVariant = "tagged" /\ exRead > 0 /\ ReciteToken(FirstField(exLine)) # <<>>) =>
        exYield = ReciteToken(FirstField(exLine))

\* the tab fields that are a word token followed by a field starting with
\* '[' or '/'
PhoneticPairs(rem) ==
    LET parts == Split(rem, <<"\t">>)
    IN  {i \in DOMAIN parts :
            /\ FullWord(Strip(parts[i]))
            /\ i + 1 <= Len(parts)
            /\ Strip(parts[i + 1]) # <<>>
            /\ Strip(parts[i + 1])[1] \in {"[", "/"}}

\* the first such word token
FirstPairWord(rem) ==
    LET i == CHOOSE k \in PhoneticPairs(rem) : \A j \in PhoneticPairs(rem) : k <= j
    IN  Strip(Split(rem, <<"\t">>)[i])

\* C9 as stated: a line whose first tab-field contains SPELLING and whose
\* remainder has a word token field followed by a '[' or '/' field yields
\* the first such word token, whether or not the remainder holds SPELLING.
C9_SpellingAnyRemainder ==
    (/\ exVariant = "tagged" /\ exRead > 0
     /\ Find(FirstField(exLine), <<"SPELLING">>) > 0
     /\ extract_from_recite(FirstField(exLine)) = <<>>
     /\ PhoneticPairs(Remainder(exLine)) # {})
        => exYield = FirstPairWord(Remainder(exLine))

\* C9 amended: such a line (its first field not of the RECITE shape) yields
\* the first such word token when the remainder itself contains SPELLING,
\* and nothing when it does not.
C9_SpellingShape ==
    (/\ exVariant = "tagged" /\ exRead > 0
     /\ Find(FirstField(exLine), <<"SPELLING">>) > 0
     /\ extract_from_recite(FirstField(exLine)) = <<>>)
        => exYield = (IF /\ Find(Remainder(exLine), <<"SPELLING">>) > 0
                         /\ PhoneticPairs(Remainder(exLine)) # {}
                          THEN FirstPairWord(Remainder(exLine))
                          ELSE <<>>)

\* a SPELLING line gave the second word token of its remainder, the first
\* one not being followed by a phonetic field
C9_Witness ==
    /\ exVariant = "tagged" /\ exRead > 0
    /\ Find(FirstField(exLine), <<"SPELLING">>) > 0
    /\ Find(Remainder(exLine), <<"SPELLING">>) > 0
    /\ exYield = <<"b">>
    /\ \E i \in PhoneticPairs(Remainder(exLine)) : i > 2

\* the tokens of the remainder that are the DICTATION marker and have a
\* token after them
Markers(rem) ==
    {i \in DOMAIN SplitTabsSpaces(rem) :
        SplitTabsSpaces(rem)[i] = <<"DICTATION">> /\ i + 1 <= Len(SplitTabsSpaces(rem))}

\* the token after the first marker if it is a word, nothing otherwise
AfterMarker(rem) ==
    LET i == CHOOSE k \in Markers(rem) : \A j \in Markers(rem) : k <= j
        tok == Strip(SplitTabsSpaces(rem)[i + 1])
    IN  IF FullWord(tok) THEN tok ELSE <<>>

\* C10 as stated: a line whose first tab-field is DICTATION yields the token
\* after the DICTATION marker of its remainder when that token is a word,
\* and nothing when it is not.
C10_DictationAnyMarker ==
    (/\ exVariant = "tagged" /\ exRead > 0
     /\ FirstField(exLine) = <<"DICTATION">>
     /\ Markers(Remainder(exLine)) # {})
        => exYield = AfterMarker(Remainder(exLine))

\* C10 amended: it does so when the remainder begins with DICTATION; a
\* remainder that does not begin with it yields nothing; and a DICTATION
\* line yields nothing else (the SPELLING branch is never tried).
C10_DictationShape ==
    (/\ exVariant = "tagged" /\ exRead > 0
     /\ FirstField(exLine) = <<"DICTATION">>)
        => exYield = (IF /\ StartsWith(Remainder(exLine), <<"DICTATION">>)
                         /\ Markers(Remainder(exLine)) # {}
                          THEN AfterMarker(Remainder(exLine))
                          ELSE <<>>)

\* a DICTATION line gave the word after the marker
C10_Witness ==
    /\ exVariant = "tagged" /\ exRead > 0
    /\ FirstField(exLine) = <<"DICTATION">>
    /\ StartsWith(Remainder(exLine), <<"DICTATION">>)
    /\ exYield = Ab
    /\ AfterMarker(Remainder(exLine)) = Ab

(***************************************************************************)
(* Specification SpecAppend: append_level applied repeatedly.              *)
(***************************************************************************)
ApLevels ==
    { <<>>, <<"a">>, <<" ", "a">>, <<"a", ",", "b">>, <<"B">>, <<" ">> }

ApTags ==
    { <<>>, <<"a">>, <<"b">>, <<"a", " ">>, <<"a", ",", "b">>, <<"a", ",", "a">> }

ApSeps == { <<",">>, <<" ">>, <<>> }

InitAppend ==
    /\ IdleCsv
    /\ IdleEx
    /\ IdleLabels
    /\ IdleMeaning
    /\ apInit \in ApLevels
    /\ apLevel = apInit
    /\ apSep \in ApSeps
    /\ apPrev = apInit
    /\ apTag = <<>>
    /\ apCount = 0
    /\ apRaised = FALSE

AppendTag(tag) ==
    /\ ~apRaised
    /\ apCount < MaxAppends
    /\ apPrev' = apLevel
    /\ apTag' = tag
    /\ apCount' = apCount + 1
    /\ apRaised' = AppendRaises(apLevel, tag, apSep)
    /\ apLevel' = IF AppendRaises(apLevel, tag, apSep)
                      THEN apLevel
                      ELSE append_level(apLevel, tag, apSep)
    /\ UNCHANGED <<apInit, apSep, csvVars, exVars, lbVars, mnVars>>

NextAppend == \E tag \in ApTags : AppendTag(tag)

SpecAppend == InitAppend /\ [][NextAppend]_vars

(***************************************************************************)
(* Properties of append_level.                                             *)
(***************************************************************************)

\* the tokens of a level: the level split on the separator
TokensOf(level, sep) == IF sep = <<>> THEN <<level>> ELSE Split(level, sep)

NoRepeats(q) == \A i, j \in DOMAIN q : q[i] = q[j] => i = j

\* C7: for every level, tag and separator the last append returned the
\* level unchanged when the tag was already one of its tokens, the tag alone
\* when the level was empty, and level + separator + tag otherwise; a second
\* append of the same tag changes nothing; and a level built from the empty
\* string by appends never holds the same token twice.  Level and tag are
\* read without their surrounding whitespace, an empty tag as no append, and
\* only appends that returned are judged.
C7_AppendContract ==
    (apCount > 0 /\ ~apRaised /\ Strip(apTag) # <<>>) =>
        LET level == Strip(apPrev)
            tag == Strip(apTag)
            tokens == TokensOf(level, apSep)
        IN  /\ apLevel = (IF level = <<>> THEN tag
                          ELSE IF \E i \in DOMAIN tokens : Strip(tokens[i]) = tag
                              THEN level
                          ELSE level \o apSep \o tag)
            /\ (~AppendRaises(apLevel, apTag, apSep)) =>
                   append_level(apLevel, apTag, apSep) = apLevel
            /\ (Strip(apInit) = <<>>) => NoRepeats(TokensOf(apLevel, apSep))

(***************************************************************************)
(* word_basic_to_csv.py: main and build_label_sets.                        *)
(*                                                                         *)
(* A path is a string; a directory or file name is written as one symbol.  *)
(* "in" is the directory of the input file (it exists), "d" a directory    *)
(* that exists and "x" a directory that does not.  Of the eight entries of *)
(* AUTO_LABEL_FILES the model keeps the first two, in the dict's order.    *)
(***************************************************************************)
MaxLabelSpecs == 2

AUTO_LABEL_FILES == << << <<"P">>, <<"fP">> >>, << <<"J">>, <<"fJ">> >> >>

\* auto_labels_dir / fname
PathJoin(dir, fname) == dir \o <<"/">> \o fname

InputParent == <<"in">>

\* the directories that exist
ExistingDirs == { <<"in">>, <<"d">> }

\* the word-list files the file system may hold, each with its lines
FileLines ==
    (PathJoin(<<"in">>, <<"fP">>) :> << Cat \o <<"\n">> >>)
    @@ (PathJoin(<<"d">>, <<"fP">>) :>
            << <<"#">> \o Dog \o <<"\n">>, <<" ", "C">> \o Tail(Cat) \o <<"\n">>,
               <<"\n">> >>)
    @@ (PathJoin(<<"d">>, <<"fJ">>) :> << Run \o <<"\n">>, Cat >>)
    @@ (<<"w">> :> << Dog \o <<" ", "\n">> >>)

\* load_word_set on the lines of a file that exists
load_word_set(lines) ==
    { Lower(Strip(lines[i])) :
        i \in {k \in DOMAIN lines :
                  /\ Strip(lines[k]) # <<>>
                  /\ ~StartsWith(Strip(lines[k]), <<"#">>)} }

\* parse_label_spec: [ok |-> FALSE] stands for the ValueError
parse_label_spec(spec) ==
    LET s == Strip(spec)
        at == IF Find(s, <<"=">>) > 0 THEN Find(s, <<"=">>) ELSE Find(s, <<":">>)
        label == Strip(SubSeq(s, 1, at - 1))
        path == StripChars(StripChars(Strip(Drop(s, at + 1)), {"\""}), {"'"})
    IN  IF s = <<>> \/ at = 0 \/ label = <<>> \/ path = <<>>
            THEN [ok |-> FALSE]
            ELSE [ok |-> TRUE, label |-> label, path |-> path]

\* args.auto_labels_dir passed on as it is
AutoDirOrNone(dir) == dir

\* main: auto_dir = args.auto_labels_dir or args.input.parent
AutoDir(dir) == IF dir # None THEN dir ELSE Some(InputParent)

\* build_label_sets: the test that raises the ValueError
AutoDirRequired(dir) == dir = None

\* merged[lbl].update(words) on the defaultdict
MergedUpdate(merged, lbl, words) ==
    [l \in DOMAIN merged \cup {lbl} |->
        (IF l \in DOMAIN merged THEN merged[l] ELSE {})
        \cup (IF l = lbl THEN words ELSE {})]

\* the two loops that build out: the labels of q that have a word set, each
\* once, in order of first appearance
RECURSIVE StableOut(_, _, _)
StableOut(q, merged, seen) ==
    IF q = <<>> THEN <<>>
    ELSE IF Head(q) \in DOMAIN merged /\ Head(q) \notin seen
        THEN << <<Head(q), merged[Head(q)]>> >>
                 \o StableOut(Tail(q), merged, seen \cup {Head(q)})
        ELSE StableOut(Tail(q), merged, seen)

LabelOrder(args) ==
    (IF args.auto_labels
        THEN [i \in DOMAIN AUTO_LABEL_FILES |-> AUTO_LABEL_FILES[i][1]]
        ELSE <<>>)
    \o [j \in DOMAIN args.label |-> parse_label_spec(args.label[j]).label]

\* ---- inputs
LabelSpecs ==
    { <<"P", "=", "w">>,
      <<" ", "J", ":", "'", "d", "/", "fJ", "'">>,
      <<"Q", "=", "m">>,
      <<"w">> }

LabelDirs == { None, Some(<<"d">>), Some(<<"x">>) }

InitLabels ==
    /\ IdleAppend
    /\ IdleCsv
    /\ IdleEx
    /\ IdleMeaning
    /\ lbEntry \in {"main", "call"}
    /\ lbArgs \in [auto_labels : BOOLEAN,
                   auto_labels_dir : LabelDirs,
                   label : SeqsUpTo(LabelSpecs, MaxLabelSpecs)]
    /\ lbFiles \in SUBSET (DOMAIN FileLines)
    /\ lbPc = "start"
    /\ lbDir = None
    /\ lbI = 0
    /\ lbJ = 0
    /\ lbMerged = <<>>
    /\ lbLast = None
    /\ lbErr = None
    /\ lbOut = None

\* main up to the call of build_label_sets
EnterMain ==
    /\ lbEntry = "main"
    /\ lbPc = "start"
    /\ lbDir' = AutoDir(lbArgs.auto_labels_dir)
    /\ lbPc' = "build"
    /\ UNCHANGED <<lbEntry, lbArgs, lbFiles, lbI, lbJ, lbMerged, lbLast, lbErr,
                   lbOut, apVars, csvVars, exVars, mnVars>>

\* build_label_sets called with the arguments as they are
EnterCall ==
    /\ lbEntry = "call"
    /\ lbPc = "start"
    /\ lbDir' = lbArgs.auto_labels_dir
    /\ lbPc' = "build"
    /\ UNCHANGED <<lbEntry, lbArgs, lbFiles, lbI, lbJ, lbMerged, lbLast, lbErr,
                   lbOut, apVars, csvVars, exVars, mnVars>>

\* if auto_labels: if auto_labels_dir is None: raise ValueError
CheckAutoDir ==
    /\ lbPc = "build"
    /\ IF ~lbArgs.auto_labels
           THEN lbPc' = "specs" /\ UNCHANGED lbErr
       ELSE IF AutoDirRequired(lbDir)
           THEN /\ lbPc' = "raised"
                /\ lbErr' = Some("ValueError: auto_labels_dir is required")
           ELSE lbPc' = "auto" /\ UNCHANGED lbErr
    /\ UNCHANGED <<lbEntry, lbArgs, lbFiles, lbDir, lbI, lbJ, lbMerged, lbLast,
                   lbOut, apVars, csvVars, exVars, mnVars>>

\* one iteration of the loop over AUTO_LABEL_FILES
LoadAuto ==
    /\ lbPc = "auto"
    /\ lbI < Len(AUTO_LABEL_FILES)
    /\ LET lbl == AUTO_LABEL_FILES[lbI + 1][1]
           p == PathJoin(lbDir[1], AUTO_LABEL_FILES[lbI + 1][2])
       IN  /\ lbLast' = Some(p)
           /\ lbMerged' = IF p \in lbFiles
                              THEN MergedUpdate(lbMerged, lbl, load_word_set(FileLines[p]))
                              ELSE lbMerged
    /\ lbI' = lbI + 1
    /\ lbPc' = IF lbI' = Len(AUTO_LABEL_FILES) THEN "specs" ELSE "auto"
    /\ UNCHANGED <<lbEntry, lbArgs, lbFiles, lbDir, lbJ, lbErr, lbOut, apVars,
                   csvVars, exVars, mnVars>>

\* one iteration of the loop over label_specs
LoadSpec ==
    /\ lbPc = "specs"
    /\ lbJ < Len(lbArgs.label)
    /\ LET parsed == parse_label_spec(lbArgs.label[lbJ + 1])
       IN  IF ~parsed.ok
               THEN /\ lbPc' = "raised"
                    /\ lbErr' = Some("ValueError: label spec")
                    /\ UNCHANGED <<lbMerged, lbLast>>
           ELSE IF parsed.path \notin lbFiles
               THEN /\ lbPc' = "raised"
                    /\ lbErr' = Some("FileNotFoundError")
                    /\ lbLast' = Some(parsed.path)
                    /\ UNCHANGED lbMerged
               ELSE /\ lbMerged' = MergedUpdate(lbMerged, parsed.label,
                                       load_word_set(FileLines[parsed.path]))
                    /\ lbLast' = Some(parsed.path)
                    /\ UNCHANGED <<lbPc, lbErr>>
    /\ lbJ' = lbJ + 1
    /\ UNCHANGED <<lbEntry, lbArgs, lbFiles, lbDir, lbI, lbOut, apVars,
                   csvVars, exVars, mnVars>>

\* the stable-order loops and the return
ReturnLabelSets ==
    /\ lbPc = "specs"
    /\ lbJ = Len(lbArgs.label)
    /\ lbOut' = Some(StableOut(LabelOrder(lbArgs), lbMerged, {}))
    /\ lbPc' = "built"
    /\ UNCHANGED <<lbEntry, lbArgs, lbFiles, lbDir, lbI, lbJ, lbMerged, lbLast,
                   lbErr, apVars, csvVars, exVars, mnVars>>

\* main: convert_file_with_output_encoding converts the rows and writes
CallConvert ==
    /\ lbEntry = "main"
    /\ lbPc = "built"
    /\ lbPc' = "converted"
    /\ UNCHANGED <<lbEntry, lbArgs, lbFiles, lbDir, lbI, lbJ, lbMerged, lbLast,
                   lbErr, lbOut, apVars, csvVars, exVars, mnVars>>

NextLabels ==
    \/ EnterMain
    \/ EnterCall
    \/ CheckAutoDir
    \/ LoadAuto
    \/ LoadSpec
    \/ ReturnLabelSets
    \/ CallConvert

SpecLabels == InitLabels /\ [][NextLabels]_vars

(***************************************************************************)
(* Properties of build_label_sets and main.                                *)
(***************************************************************************)
AutoDirError == Some("ValueError: auto_labels_dir is required")

\* C11: a label-set file that does not exist, whether it comes from the
\* auto-discovery table or from an explicit label spec, is skipped: the run
\* is never ended by the error of opening it.
C11_MissingFileSkipped ==
    (lbLast # None /\ lbLast[1] \notin lbFiles) =>
        ~(lbPc = "raised" /\ lbErr = Some("FileNotFoundError"))

\* --auto-labels with no --auto-labels-dir, or with one that does not exist
AutoDirMissingOnCommandLine ==
    /\ lbEntry = "main"
    /\ lbArgs.auto_labels
    /\ \/ lbArgs.auto_labels_dir = None
       \/ lbArgs.auto_labels_dir[1] \notin ExistingDirs

\* C12 as stated: under --auto-labels with the directory not supplied or not
\* existing, the run from the command line goes no further than the check
\* of the directory: no label file is examined, nothing is converted or
\* written.
C12_MissingDirRaises ==
    AutoDirMissingOnCommandLine =>
        lbPc \in {"start", "build", "raised"} /\ lbLast = None

\* C12 amended: build_label_sets raises the value error exactly when it is
\* given auto_labels and no directory at all, and then before any file is
\* examined and before anything is built or converted; from the command line
\* the directory is the one supplied or else the input file's directory, so
\* this error is never raised there; and under a directory that does not
\* exist the auto-discovery loop ends with no label loaded and no error.
C12_AutoDirNoneRaises ==
    /\ (lbPc \notin {"off", "start", "build"} /\ lbArgs.auto_labels) =>
           IF lbDir = None
               THEN /\ lbPc = "raised"
                    /\ lbErr = AutoDirError
                    /\ lbLast = None
                    /\ lbMerged = <<>>
                    /\ lbOut = None
               ELSE lbErr # AutoDirError
    /\ (lbEntry = "main" /\ lbPc # "start") =>
           /\ lbDir = (IF lbArgs.auto_labels_dir # None
                           THEN lbArgs.auto_labels_dir
                           ELSE Some(InputParent))
           /\ lbErr # AutoDirError
    /\ (/\ lbPc = "specs"
        /\ lbJ = 0
        /\ lbArgs.auto_labels
        /\ lbDir[1] \notin ExistingDirs) =>
           lbMerged = <<>> /\ lbErr = None /\ lbI = Len(AUTO_LABEL_FILES)

C12_Witness ==
    /\ lbEntry = "call"
    /\ lbArgs.auto_labels
    /\ lbDir = None
    /\ lbPc = "raised"
    /\ lbErr = AutoDirError

(***************************************************************************)
(* word_basic_to_csv.py: extract_first_three_meanings.                     *)
(*                                                                         *)
(* The full-width semicolon and comma and a Chinese character are written  *)
(* as one symbol each.  Positions are 1-based; the end of a match is the   *)
(* position after its last character.                                      *)
(***************************************************************************)
MaxSegments == 4

FullSemi == "FW;"
FullComma == "FW,"
Zh == "ZH"

\* sep.join(parts)
RECURSIVE Join(_, _)
Join(parts, sep) ==
    IF parts = <<>> THEN <<>>
    ELSE IF Len(parts) = 1 THEN parts[1]
    ELSE parts[1] \o sep \o Join(Tail(parts), sep)

\* [m.strip() for m in full_meaning.split(d) if m.strip()]
RECURSIVE StripNonEmpty(_)
StripNonEmpty(parts) ==
    IF parts = <<>> THEN <<>>
    ELSE IF Strip(Head(parts)) = <<>> THEN StripNonEmpty(Tail(parts))
    ELSE <<Strip(Head(parts))>> \o StripNonEmpty(Tail(parts))

Meanings(full_meaning, d) == StripNonEmpty(Split(full_meaning, <<d>>))

\* the branch with "<" written for "<="
FirstThreeByLessThan(full_meaning, d) ==
    LET meanings == Meanings(full_meaning, d)
    IN  IF Len(meanings) < 3
            THEN full_meaning
            ELSE Join(SubSeq(meanings, 1, 3), <<d>>)

\* one branch of strategies 1 and 2
FirstThreeBy(full_meaning, d) ==
    LET meanings == Meanings(full_meaning, d)
    IN  IF Len(meanings) <= 3
            THEN full_meaning
            ELSE Join(SubSeq(meanings, 1, 3), <<d>>)

\* [a-z]+ under re.IGNORECASE from position i: the position after the run
RECURSIVE LetterRunEnd(_, _)
LetterRunEnd(s, i) ==
    IF i <= Len(s) /\ IsLetter(s[i]) THEN LetterRunEnd(s, i + 1) ELSE i

\* \s* from position i: the position after the run
RECURSIVE SpaceRunEnd(_, _)
SpaceRunEnd(s, i) ==
    IF i <= Len(s) /\ s[i] \in Whitespace THEN SpaceRunEnd(s, i + 1) ELSE i

\* (?=[a-z]+\.|$) at position e; $ also matches before a final newline
PosLookahead(s, e) ==
    \/ e = Len(s) + 1
    \/ e = Len(s) /\ s[e] = "\n"
    \/ /\ e <= Len(s)
       /\ IsLetter(s[e])
       /\ LetterRunEnd(s, e) <= Len(s)
       /\ s[LetterRunEnd(s, e)] = "."

\* pos_pattern matched at position i: the end of the match, 0 for no match.
\* \s* is tried from its longest run down, [^a-z]+? from one character up.
PosMatchAt(s, i) ==
    LET dot == LetterRunEnd(s, i)
        sp == SpaceRunEnd(s, dot + 1)
        ends(from) == {e \in (from + 1)..(Len(s) + 1) :
                          /\ \A k \in from..(e - 1) : ~IsLetter(s[k])
                          /\ PosLookahead(s, e)}
        froms == {f \in (dot + 1)..sp : ends(f) # {}}
        from == CHOOSE f \in froms : \A g \in froms : g <= f
    IN  IF i > Len(s) \/ ~IsLetter(s[i]) \/ dot > Len(s) \/ s[dot] # "."
            THEN 0
        ELSE IF froms = {} THEN 0
        ELSE CHOOSE e \in ends(from) : \A x \in ends(from) : e <= x

\* pos_break_pattern matched at position i: the end of the match, 0 for none
PosBreakMatchAt(s, i) ==
    LET dot == LetterRunEnd(s, i)
        RECURSIVE run(_)
        run(k) == IF k <= Len(s) /\ ~IsLetter(s[k]) /\ s[k] # "."
                      THEN run(k + 1) ELSE k
    IN  IF i > Len(s) \/ ~IsLetter(s[i]) \/ dot > Len(s) \/ s[dot] # "."
            THEN 0
        ELSE IF run(dot + 1) = dot + 1 THEN 0
        ELSE run(dot + 1)

\* re.finditer: the ends of the successive matches from position i on
RECURSIVE PosMatches(_, _)
PosMatches(s, i) ==
    IF i > Len(s) THEN <<>>
    ELSE IF PosMatchAt(s, i) = 0 THEN PosMatches(s, i + 1)
    ELSE <<PosMatchAt(s, i)>> \o PosMatches(s, PosMatchAt(s, i))

RECURSIVE PosBreakMatches(_, _)
PosBreakMatches(s, i) ==
    IF i > Len(s) THEN <<>>
    ELSE IF PosBreakMatchAt(s, i) = 0 THEN PosBreakMatches(s, i + 1)
    ELSE <<PosBreakMatchAt(s, i)>> \o PosBreakMatches(s, PosBreakMatchAt(s, i))

\* full_meaning[:end_pos].strip() for the end of the third match
UpToThird(full_meaning, matches) == Strip(SubSeq(full_meaning, 1, matches[3] - 1))

HasChar(s, c) == \E i \in DOMAIN s : s[i] = c

extract_first_three_meanings(full_meaning) ==
    IF full_meaning = <<>> THEN <<>>
    ELSE IF HasChar(full_meaning, FullSemi) THEN FirstThreeBy(full_meaning, FullSemi)
    ELSE IF HasChar(full_meaning, ";") THEN FirstThreeBy(full_meaning, ";")
    ELSE IF HasChar(full_meaning, FullComma) THEN FirstThreeBy(full_meaning, FullComma)
    ELSE IF HasChar(full_meaning, ",") THEN FirstThreeBy(full_meaning, ",")
    ELSE LET matches == PosMatches(full_meaning, 1)
             pos_matches == PosBreakMatches(full_meaning, 1)
         IN  IF Len(matches) > 3 THEN UpToThird(full_meaning, matches)
             ELSE IF Len(matches) > 0 THEN full_meaning
             ELSE IF Len(pos_matches) > 3 THEN UpToThird(full_meaning, pos_matches)
             ELSE full_meaning

\* ---- inputs: cleaned meanings
Delimiters == {FullSemi, ";", FullComma, ","}

SegmentTexts == { <<Zh>>, <<" ">>, <<" ", Zh, ",", "n", ".", Zh>> }

\* up to k segments with a delimiter between neighbours
RECURSIVE DelimitedTexts(_)
DelimitedTexts(k) ==
    IF k <= 1 THEN SegmentTexts
    ELSE LET shorter == DelimitedTexts(k - 1)
         IN  shorter \cup {t \o <<d>> \o p :
                              t \in shorter, d \in Delimiters, p \in SegmentTexts}

PosGroupTexts ==
    { <<"n", ".", Zh>>,
      <<"a", "d", "v", ".", " ", Zh>>,
      <<Zh>>,
      <<"n", ".", Zh, "b", " ">>,
      <<"n", ".">> }

\* up to k groups written one after the other
RECURSIVE GroupedTexts(_)
GroupedTexts(k) ==
    IF k <= 1 THEN PosGroupTexts
    ELSE LET shorter == GroupedTexts(k - 1)
         IN  shorter \cup {t \o g : t \in shorter, g \in PosGroupTexts}

\* "art." Zh FullSemi Zh "adv." Zh Zh "adj." Zh Zh "pron." Zh Zh
ArtExample ==
    <<"a", "r", "t", ".", Zh, FullSemi, Zh, "a", "d", "v", ".", Zh, Zh,
      "a", "d", "j", ".", Zh, Zh, "p", "r", "o", "n", ".", Zh, Zh>>

\* clean_meaning returns meaning.strip()
CleanedMeanings ==
    {Strip(t) : t \in DelimitedTexts(MaxSegments) \cup GroupedTexts(MaxSegments)}
    \cup {ArtExample}

InitMeaning ==
    /\ IdleAppend
    /\ IdleCsv
    /\ IdleEx
    /\ IdleLabels
    /\ mnFull \in CleanedMeanings
    /\ mnShort = None

\* extract_fields: meaning = extract_first_three_meanings(full_meaning)
ExtractMeaning ==
    /\ mnShort = None
    /\ mnShort' = Some(extract_first_three_meanings(mnFull))
    /\ UNCHANGED <<mnFull, apVars, csvVars, exVars, lbVars>>

NextMeaning == ExtractMeaning

SpecMeaning == InitMeaning /\ [][NextMeaning]_vars

(***************************************************************************)
(* Properties of extract_first_three_meanings.                             *)
(***************************************************************************)
Priority == <<FullSemi, ";", FullComma, ",">>

Present(s) == {i \in DOMAIN Priority : \E k \in DOMAIN s : s[k] = Priority[i]}

\* the delimiter of highest priority that occurs in s
Preferred(s) == Priority[CHOOSE i \in Present(s) : \A j \in Present(s) : i <= j]

\* s cut at every d, read character by character
RECURSIVE CutAt(_, _, _)
CutAt(s, d, acc) ==
    IF s = <<>> THEN <<acc>>
    ELSE IF Head(s) = d THEN <<acc>> \o CutAt(Tail(s), d, <<>>)
    ELSE CutAt(Tail(s), d, Append(acc, Head(s)))

\* the segments trimmed, the empty ones left out
RECURSIVE Trimmed(_)
Trimmed(q) ==
    IF q = <<>> THEN <<>>
    ELSE IF Strip(Head(q)) = <<>> THEN Trimmed(Tail(q))
    ELSE <<Strip(Head(q))>> \o Trimmed(Tail(q))

\* a letter followed at once by a period
HasPosMarker(s) == \E k \in 1..(Len(s) - 1) : IsLetter(s[k]) /\ s[k + 1] = "."

C14_PosGroupsTruncated ==
    mnShort # None =>
        /\ (mnFull = ArtExample) =>
               /\ mnShort[1] = SubSeq(mnFull, 1, Find(mnFull, <<"p", "r", "o", "n", ".">>) - 1)
               /\ Len(mnShort[1]) < Len(mnFull)
        /\ (Present(mnFull) = {} /\ Len(PosMatches(mnFull, 1)) > 3) =>
               mnShort[1] = Strip(SubSeq(mnFull, 1, PosMatches(mnFull, 1)[3] - 1))

====
